---- MODULE Spec2Model ----
(***************************************************************************)
(* A model of solana-aggregator:                                           *)
(*   src/src/aggregator.rs   aggregate_data, get_block, handle_block,      *)
(*                           Transaction::{handle_transaction, fetch_*,    *)
(*                           insert_to_database}, get_timestamp            *)
(*   src/src/database.rs     Database::{new, new_connection,               *)
(*                           init_database, insert, query}                 *)
(*   src/src/restful_api.rs  web_server, transactions, *_query             *)
(*   src/src/main.rs         main, run (the runtime that owns the tasks)   *)
(*                                                                         *)
(* The specifications share the variables:                                 *)
(*   Spec           the ingestion worker: aggregate_data, the per-slot     *)
(*                  tasks it spawns, the store, the runtime's drop.        *)
(*   FairSpec       Spec with weak fairness of the subscription loop.      *)
(*   BlockSpec      one direct call of get_block (as src/src/tests.rs      *)
(*                  calls it) over a ledger whose block ranges over a rich *)
(*                  set of raw transactions.                               *)
(*   TestEnvSpec    get_block and aggregate_data as test_env calls them.   *)
(*   TimestampSpec  get_block over blocks of many block times.             *)
(*   QuerySpec      GET /transactions over stores and requests.            *)
(*   MainSpec       main with its two threads; MainFairSpec adds the       *)
(*                  scheduling of the threads.                             *)
(***************************************************************************)
EXTENDS Integers, Sequences, FiniteSets, TLC

VARIABLES
    env,          \* the process environment holds parsable ws_url and rpc_url
    ledger,       \* the upstream chain: slot -> block served by GetBlock
    table,        \* the transactions table exists in transactions.db
    rows,         \* the rows of the transactions table, in insertion order
    origin,       \* history: for each row, the task and transaction it came from
    attempted,    \* history: number of calls of Database::insert
    aggPc,        \* position of aggregate_data
    aggResult,    \* what aggregate_data returned ("none" while it runs)
    iter,         \* iterations of the subscription loop taken so far
    delivered,    \* history: notifications the stream has yielded (Some)
    streamOpen,   \* the slot stream has not ended
    unsubscribed, \* number of calls of unsubscriber()
    runtime,      \* the tokio runtime of run(): "running" or "dropped"
    tasks,        \* the per-slot tasks spawned so far, in spawn order
    main,         \* position and result of main()
    t1,           \* the thread of restful_api::web_server: position and result
    response      \* the query service's latest request and its response

vars == <<env, ledger, table, rows, origin, attempted, aggPc, aggResult, iter,
          delivered, streamOpen, unsubscribed, runtime, tasks, main, t1, response>>

(***************************************************************************)
(* Bounds and scaled program constants.                                    *)
(***************************************************************************)
\* const MAX_ITERATIONS: i32 = 100, scaled down.
MAX_ITERATIONS == 2

\* Width of a balance (u64 in the program) and of an amount (i64), scaled.
BalBits == 8

\* Number of distinct slots the feed can name.
NumSlots == 3

RECURSIVE Pow2(_)
Pow2(n) == IF n = 0 THEN 1 ELSE 2 * Pow2(n - 1)

UMax == Pow2(BalBits) - 1          \* u64::MAX
IMax == Pow2(BalBits - 1) - 1      \* i64::MAX
IMin == 0 - Pow2(BalBits - 1)      \* i64::MIN

Slots == 1..NumSlots

None == [some |-> FALSE, value |-> 0]
Some(v) == [some |-> TRUE, value |-> v]

(***************************************************************************)
(* Pubkey::from_str and Pubkey::to_string.  A Pubkey is modelled by a      *)
(* number: 0 is Pubkey::default() (32 zero bytes, base58 "1111...1"), and  *)
(* k > 0 is the key whose base58 text is PubkeyText[k].  Every other text  *)
(* fails to parse.                                                         *)
(***************************************************************************)
PubkeyText == <<"A", "B", "C">>
DefaultPubkeyText == "11111111111111111111111111111111"
DefaultPubkey == 0

ParseErr == [ok |-> FALSE, key |-> DefaultPubkey]

PubkeyFromStr(s) ==
    IF s = DefaultPubkeyText THEN [ok |-> TRUE, key |-> DefaultPubkey]
    ELSE IF \E k \in DOMAIN PubkeyText : PubkeyText[k] = s
         THEN [ok |-> TRUE, key |-> CHOOSE k \in DOMAIN PubkeyText : PubkeyText[k] = s]
         ELSE ParseErr

PubkeyToString(k) == IF k = DefaultPubkey THEN DefaultPubkeyText ELSE PubkeyText[k]

(***************************************************************************)
(* i64::to_string and the INTEGER affinity of the bigint column: the       *)
(* amount is bound as decimal text and stored as the integer it spells.    *)
(***************************************************************************)
Digit == <<"0", "1", "2", "3", "4", "5", "6", "7", "8", "9">>

RECURSIVE NatToString(_)
NatToString(n) ==
    IF n < 10 THEN <<Digit[n + 1]>>
    ELSE Append(NatToString(n \div 10), Digit[(n % 10) + 1])

I64ToString(n) == IF n < 0 THEN <<"-">> \o NatToString(0 - n) ELSE NatToString(n)

DigitValue(c) == (CHOOSE d \in DOMAIN Digit : Digit[d] = c) - 1

RECURSIVE DigitsToNat(_)
DigitsToNat(t) ==
    IF t = <<>> THEN 0
    ELSE 10 * DigitsToNat(SubSeq(t, 1, Len(t) - 1)) + DigitValue(t[Len(t)])

IntegerAffinity(t) ==
    IF t # <<>> /\ t[1] = "-" THEN 0 - DigitsToNat(Tail(t)) ELSE DigitsToNat(t)

(***************************************************************************)
(* get_timestamp: seconds since the Unix epoch to "YYYY-MM-DD HH:MM:SS" in *)
(* UTC (chrono's proleptic Gregorian calendar).  `timestamp as u64` turns  *)
(* a negative block time into a duration past the range of SystemTime, and *)
(* UNIX_EPOCH + d panics.                                                  *)
(***************************************************************************)
\* Pad2, were the field not zero-padded (%-m instead of %m).
Pad2Unpadded(n) == ToString(n)

Pad2(n) == IF n < 10 THEN "0" \o ToString(n) ELSE ToString(n)

Pad4(n) ==
    IF n < 10 THEN "000" \o ToString(n)
    ELSE IF n < 100 THEN "00" \o ToString(n)
    ELSE IF n < 1000 THEN "0" \o ToString(n)
    ELSE ToString(n)

\* The civil date of day number `days` (days since 1970-01-01, days >= 0).
CivilFromDays(days) ==
    LET z   == days + 719468
        era == z \div 146097
        doe == z - era * 146097
        yoe == (doe - doe \div 1460 + doe \div 36524 - doe \div 146096) \div 365
        doy == doe - (365 * yoe + yoe \div 4 - yoe \div 100)
        mp  == (5 * doy + 2) \div 153
        d   == doy - (153 * mp + 2) \div 5 + 1
        m   == IF mp < 10 THEN mp + 3 ELSE mp - 9
        y   == yoe + era * 400 + (IF m <= 2 THEN 1 ELSE 0)
    IN  [year |-> y, month |-> m, day |-> d]

GetTimestampPanics(timestamp) == timestamp < 0

get_timestamp(timestamp) ==
    LET date == CivilFromDays(timestamp \div 86400)
        sod  == timestamp % 86400
    IN  Pad4(date.year) \o "-" \o Pad2(date.month) \o "-" \o Pad2(date.day) \o " "
        \o Pad2(sod \div 3600) \o ":" \o Pad2((sod % 3600) \div 60) \o ":"
        \o Pad2(sod % 60)

(***************************************************************************)
(* Transaction (aggregator.rs 26-127).  A raw transaction of a block is a  *)
(* record                                                                  *)
(*   [encoding: "Json" | "Binary", message: "Raw" | "Parsed",              *)
(*    meta: BOOLEAN, signatures, account_keys, pre_balances, post_balances]*)
(* The outcome of a call is a record whose tag is "Ok", "Err" or "Panic".  *)
(***************************************************************************)
NewTransaction ==
    [sender |-> DefaultPubkey, receiver |-> DefaultPubkey, amount |-> 0,
     timestamp |-> "", signatures |-> <<>>]

Ok(t) == [tag |-> "Ok", tx |-> t]
Panic(t) == [tag |-> "Panic", tx |-> t]
Err(t) == [tag |-> "Err", tx |-> t]

\* account_keys[0], Pubkey::from_str(..).unwrap(): an index out of bounds or an
\* unparsable key panics.
fetch_sender(self, etx) ==
    IF Len(etx.account_keys) < 1 THEN Panic(self)
    ELSE LET key == PubkeyFromStr(etx.account_keys[1])
         IN  IF key.ok THEN Ok([self EXCEPT !.sender = key.key]) ELSE Panic(self)

fetch_receiver(self, etx) ==
    IF Len(etx.account_keys) < 2 THEN Panic(self)
    ELSE LET key == PubkeyFromStr(etx.account_keys[2])
         IN  IF key.ok THEN Ok([self EXCEPT !.receiver = key.key]) ELSE Panic(self)

\* `b as i64`: the two's complement reading of a u64.
AsI64(b) == IF b > IMax THEN b - (UMax + 1) ELSE b

\* The value an i64 subtraction wraps to.
WrapI64(n) == ((n - IMin) % (UMax + 1)) + IMin

\* pre_balances[0] as i64 - post_balances[0] as i64.  The set of outcomes: when
\* the subtraction overflows, a build with overflow checks panics and a build
\* without them wraps.
fetch_amount(self, etx) ==
    IF Len(etx.pre_balances) < 1 \/ Len(etx.post_balances) < 1 THEN {Panic(self)}
    ELSE LET d == AsI64(etx.pre_balances[1]) - AsI64(etx.post_balances[1])
         IN  IF d > IMax \/ d < IMin
             THEN {Panic(self), Ok([self EXCEPT !.amount = WrapI64(d)])}
             ELSE {Ok([self EXCEPT !.amount = d])}

\* handle_transaction, were a transaction without metadata taken as it is
\* instead of being an error.
handle_transaction_without_meta(self, etx) ==
    IF etx.encoding = "Json"
    THEN LET withSigs == [self EXCEPT !.signatures = etx.signatures]
         IN  IF etx.message = "Raw" /\ etx.meta
             THEN LET s == fetch_sender(withSigs, etx)
                      r == IF s.tag = "Ok" THEN fetch_receiver(s.tx, etx) ELSE s
                  IN  IF r.tag = "Ok" THEN fetch_amount(r.tx, etx) ELSE {r}
             ELSE {Ok(withSigs)}
    ELSE {Ok(self)}

\* The outcomes of handle_transaction on a Transaction `self`.
handle_transaction(self, etx) ==
    IF ~etx.meta THEN {Err(self)}
    ELSE IF etx.encoding = "Json"
    THEN LET withSigs == [self EXCEPT !.signatures = etx.signatures]
         IN  IF etx.message = "Raw"
             THEN LET s == fetch_sender(withSigs, etx)
                      r == IF s.tag = "Ok" THEN fetch_receiver(s.tx, etx) ELSE s
                  IN  IF r.tag = "Ok" THEN fetch_amount(r.tx, etx) ELSE {r}
             ELSE {Ok(withSigs)}
    ELSE {Ok(self)}

\* The row that Database::insert binds: sender.to_string(), receiver.to_string(),
\* amount.to_string(), timestamp, signature; the bigint column keeps the integer
\* that the amount text spells.
InsertedRow(sender, receiver, amount, timestamp, signature) ==
    [sender |-> PubkeyToString(sender), receiver |-> PubkeyToString(receiver),
     amount |-> IntegerAffinity(I64ToString(amount)), timestamp |-> timestamp,
     signature |-> signature]

\* insert_to_database reads signatures[0]: an empty signature list panics.
InsertPanics(self) == Len(self.signatures) < 1

RowOf(self) ==
    InsertedRow(self.sender, self.receiver, self.amount, self.timestamp,
                self.signatures[1])

(***************************************************************************)
(* The upstream ledger.  A block is [block_time, transactions]; block_time *)
(* is None or Some(seconds since the epoch).                               *)
(***************************************************************************)
RefTime == 1722201110

Transfer(keys, sigs, pre, post) ==
    [encoding |-> "Json", message |-> "Raw", meta |-> TRUE, signatures |-> sigs,
     account_keys |-> keys, pre_balances |-> pre, post_balances |-> post]

TxAB == Transfer(<<"A", "B", "C">>, <<"s1">>, <<100, 50, 10>>, <<80, 70, 10>>)
TxBA == Transfer(<<"B", "A">>, <<"s2", "s3">>, <<5, 0>>, <<8, 2>>)
TxNoMeta == [TxAB EXCEPT !.meta = FALSE, !.signatures = <<"s4">>]

TxOneKey == [TxAB EXCEPT !.account_keys = <<"A">>]

\* The ledger of Spec: a block of two transfers, a block whose second
\* transaction has no metadata, a block without a block time, and beyond
\* them blocks whose second transaction names a single account.
MainLedger ==
    [s \in Slots |->
        IF s = 1 THEN [block_time |-> Some(RefTime), transactions |-> <<TxAB, TxBA>>]
        ELSE IF s = 2
        THEN [block_time |-> Some(RefTime), transactions |-> <<TxBA, TxNoMeta, TxAB>>]
        ELSE IF s = 3 THEN [block_time |-> None, transactions |-> <<TxAB>>]
        ELSE [block_time |-> Some(RefTime), transactions |-> <<TxAB, TxOneKey>>]]

(***************************************************************************)
(* main (main.rs 20-29), its thread t1 and the query service.  The thread  *)
(* t2 of run() is aggregate_data together with the runtime.                *)
(***************************************************************************)
Thread(pc) == [pc |-> pc, result |-> "none"]

NoRequest ==
    [start_date |-> None, end_date |-> None, signature |-> None, sender |-> None,
     receiver |-> None]

NoResponse == [request |-> NoRequest, status |-> "none", body |-> <<>>]

\* main has not been entered: get_block or aggregate_data is run on its own.
NotStarted ==
    /\ main = Thread("none")
    /\ t1 = Thread("none")
    /\ response = NoResponse

(***************************************************************************)
(* Per-slot tasks: get_block (aggregator.rs 173-197) and handle_block      *)
(* (209-229).  get_block holds no .await: once a worker polls the task it  *)
(* runs to its end.                                                        *)
(***************************************************************************)
\* A task: its slot, its position, the transaction its loop is at, what
\* get_block returned, and (history) the GetBlock requests it has sent.
NewTask(slot) ==
    [slot |-> slot, pc |-> "queued", idx |-> 0, result |-> "none", requests |-> 0]

Finish(task, result) == [task EXCEPT !.pc = "done", !.result = result]

BlockOf(task) == ledger[task.slot]

\* Spawn, were the spawn done for the first notification only.
SpawnFirstOnly(ts, slot) == IF ts = <<>> THEN <<NewTask(slot)>> ELSE ts

\* Spawn, were the loop to stop spawning once a task has failed.
SpawnUnlessFailed(ts, slot) ==
    IF \E i \in DOMAIN ts : ts[i].pc = "done" /\ ts[i].result # "Ok" THEN ts
    ELSE Append(ts, NewTask(slot))

\* handle.spawn(async move { get_block(response.root).await })
Spawn(ts, slot) == Append(ts, NewTask(slot))

\* Database::new_connection() and envy::from_env::<Env>().
TaskStart(i) ==
    /\ tasks[i].pc = "queued"
    /\ \E connected \in BOOLEAN :
          tasks' = [tasks EXCEPT ![i] =
                       IF ~connected THEN Finish(@, "DatabaseError")
                       ELSE IF ~env THEN Finish(@, "EnvFetchError")
                       ELSE [@ EXCEPT !.pc = "fetch"]]
    /\ UNCHANGED <<main, t1, response, env, ledger, table, rows, origin, attempted, aggPc, aggResult, iter,
                   delivered, streamOpen, unsubscribed, runtime>>

\* TaskFetch, were a failed request sent once more before giving up.
TaskFetchRetrying(i) ==
    /\ tasks[i].pc = "fetch"
    /\ \E fetched \in BOOLEAN :
          tasks' = [tasks EXCEPT ![i] =
                       IF fetched THEN [@ EXCEPT !.pc = "block", !.requests = @ + 1]
                       ELSE IF @.requests = 0 THEN [@ EXCEPT !.requests = @ + 1]
                       ELSE Finish([@ EXCEPT !.requests = @ + 1], "BlockFetchError")]
    /\ UNCHANGED <<main, t1, response, env, ledger, table, rows, origin, attempted, aggPc,
                   aggResult, iter, delivered, streamOpen, unsubscribed, runtime>>

\* thread::sleep, then the one rpc.send(GetBlock, [slot, ..]).
TaskFetch(i) ==
    /\ tasks[i].pc = "fetch"
    /\ \E fetched \in BOOLEAN :
          tasks' = [tasks EXCEPT ![i] =
                       IF fetched THEN [@ EXCEPT !.pc = "block", !.requests = @ + 1]
                       ELSE Finish([@ EXCEPT !.requests = @ + 1], "BlockFetchError")]
    /\ UNCHANGED <<main, t1, response, env, ledger, table, rows, origin, attempted, aggPc, aggResult, iter,
                   delivered, streamOpen, unsubscribed, runtime>>

\* HandleBlockEntry, were a missing block time defaulted (unwrap_or_default).
HandleBlockEntryDefaultTime(task, block) ==
    IF GetTimestampPanics(block.block_time.value) THEN Finish(task, "Panic")
    ELSE IF block.transactions = <<>> THEN Finish(task, "Ok")
    ELSE [task EXCEPT !.pc = "txs", !.idx = 1]

\* handle_block up to its loop: the block time, then get_timestamp.
HandleBlockEntry(task, block) ==
    IF ~block.block_time.some THEN Finish(task, "TimeFetchError")
    ELSE IF GetTimestampPanics(block.block_time.value) THEN Finish(task, "Panic")
    ELSE IF block.transactions = <<>> THEN Finish(task, "Ok")
    ELSE [task EXCEPT !.pc = "txs", !.idx = 1]

TaskHandleBlock(i) ==
    /\ tasks[i].pc = "block"
    /\ tasks' = [tasks EXCEPT ![i] = HandleBlockEntry(@, BlockOf(@))]
    /\ UNCHANGED <<main, t1, response, env, ledger, table, rows, origin, attempted, aggPc, aggResult, iter,
                   delivered, streamOpen, unsubscribed, runtime>>

\* NextTransaction, were the loop to step over every other transaction.
NextTransactionSkipping(task, block) ==
    IF task.idx + 2 > Len(block.transactions) THEN Finish(task, "Ok")
    ELSE [task EXCEPT !.idx = @ + 2]

\* The task after the transaction at idx has been dealt with.
NextTransaction(task, block) ==
    IF task.idx = Len(block.transactions) THEN Finish(task, "Ok")
    ELSE [task EXCEPT !.idx = @ + 1]

\* One turn of handle_block's loop: Transaction::new, handle_transaction, and
\* on Ok insert_to_database, whose Database::insert either appends the row or
\* fails (its error is dropped by `let _ =`).
TaskTransaction(i) ==
    /\ tasks[i].pc = "txs"
    /\ LET task  == tasks[i]
           block == BlockOf(task)
           fresh == [NewTransaction EXCEPT
                        !.timestamp = get_timestamp(block.block_time.value)]
       IN  \E o \in handle_transaction(fresh, block.transactions[task.idx]) :
             IF o.tag = "Err"
             THEN /\ tasks' = [tasks EXCEPT ![i] = Finish(@, "TransactionParseError")]
                  /\ UNCHANGED <<rows, origin, attempted>>
             ELSE IF o.tag = "Panic" \/ InsertPanics(o.tx)
             THEN /\ tasks' = [tasks EXCEPT ![i] = Finish(@, "Panic")]
                  /\ UNCHANGED <<rows, origin, attempted>>
             ELSE /\ tasks' = [tasks EXCEPT ![i] = NextTransaction(@, block)]
                  /\ attempted' = attempted + 1
                  /\ \E stored \in BOOLEAN :
                        IF stored /\ table
                        THEN /\ rows' = Append(rows, RowOf(o.tx))
                             /\ origin' = Append(origin, [task |-> i, idx |-> task.idx])
                        ELSE UNCHANGED <<rows, origin>>
    /\ UNCHANGED <<main, t1, response, env, ledger, table, aggPc, aggResult, iter, delivered,
                   streamOpen, unsubscribed, runtime>>

\* The runtime drops a task that no worker has polled yet.
TaskCancel(i) ==
    /\ runtime = "dropped"
    /\ tasks[i].pc = "queued"
    /\ tasks' = [tasks EXCEPT ![i] = [@ EXCEPT !.pc = "cancelled"]]
    /\ UNCHANGED <<main, t1, response, env, ledger, table, rows, origin, attempted, aggPc, aggResult, iter,
                   delivered, streamOpen, unsubscribed, runtime>>

(***************************************************************************)
(* aggregate_data (aggregator.rs 135-161) and run (main.rs 40-43).         *)
(***************************************************************************)
\* aggregate_data returns `result`.
Return(result) == aggPc' = "done" /\ aggResult' = result

\* LoopRunning, were the range inclusive (0..=MAX_ITERATIONS).
LoopRunningInclusive(n) == n <= MAX_ITERATIONS

\* for _ in 0..MAX_ITERATIONS, after n iterations.
LoopRunning(n) == n < MAX_ITERATIONS

\* let _ = Database::new(): init_database creates the table, or one of its
\* unwraps panics.
AggNewDatabase ==
    /\ aggPc = "start"
    /\ \E created \in BOOLEAN :
          IF created THEN /\ table' = TRUE
                          /\ aggPc' = "env"
                          /\ UNCHANGED aggResult
          ELSE /\ Return("Panic")
               /\ UNCHANGED table
    /\ UNCHANGED <<main, t1, response, env, ledger, rows, origin, attempted, iter, delivered, streamOpen,
                   unsubscribed, runtime, tasks>>

\* AggEnv, were a failure to read the configuration not returned.
AggEnvIgnored ==
    /\ aggPc = "env"
    /\ aggPc' = "pubsub"
    /\ UNCHANGED <<main, t1, response, env, ledger, table, rows, origin, attempted, aggResult, iter, delivered,
                   streamOpen, unsubscribed, runtime, tasks>>

\* envy::from_env::<Env>()
AggEnv ==
    /\ aggPc = "env"
    /\ IF env THEN aggPc' = "pubsub" /\ UNCHANGED aggResult
       ELSE Return("EnvFetchError")
    /\ UNCHANGED <<main, t1, response, env, ledger, table, rows, origin, attempted, iter, delivered, streamOpen,
                   unsubscribed, runtime, tasks>>

\* PubsubClient::new(ws_url).await
AggPubsub ==
    /\ aggPc = "pubsub"
    /\ \E connected \in BOOLEAN :
          IF connected THEN aggPc' = "subscribe" /\ UNCHANGED aggResult
          ELSE Return("PubsubClientError")
    /\ UNCHANGED <<main, t1, response, env, ledger, table, rows, origin, attempted, iter, delivered, streamOpen,
                   unsubscribed, runtime, tasks>>

\* pubsub.slot_subscribe().await
AggSubscribe ==
    /\ aggPc = "subscribe"
    /\ \E subscribed \in BOOLEAN :
          IF subscribed THEN /\ aggPc' = "loop"
                             /\ streamOpen' = TRUE
                             /\ UNCHANGED aggResult
          ELSE /\ Return("SlotSubscribeError")
               /\ UNCHANGED streamOpen
    /\ UNCHANGED <<main, t1, response, env, ledger, table, rows, origin, attempted, iter, delivered,
                   unsubscribed, runtime, tasks>>

\* AggNextSome, were the loop to await each task before the next iteration.
AggNextSomeAwaiting ==
    /\ aggPc = "loop"
    /\ LoopRunning(iter)
    /\ streamOpen
    /\ \A i \in DOMAIN tasks : tasks[i].pc = "done"
    /\ \E slot \in Slots : tasks' = Spawn(tasks, slot)
    /\ iter' = iter + 1
    /\ delivered' = delivered + 1
    /\ UNCHANGED <<main, t1, response, env, ledger, table, rows, origin, attempted, aggPc,
                   aggResult, streamOpen, unsubscribed, runtime>>

\* One iteration in which accounts.next().await yields Some(response): the
\* task for response.root is spawned.
AggNextSome ==
    /\ aggPc = "loop"
    /\ LoopRunning(iter)
    /\ streamOpen
    /\ \E slot \in Slots : tasks' = Spawn(tasks, slot)
    /\ iter' = iter + 1
    /\ delivered' = delivered + 1
    /\ UNCHANGED <<main, t1, response, env, ledger, table, rows, origin, attempted, aggPc, aggResult, streamOpen,
                   unsubscribed, runtime>>

\* One iteration in which accounts.next().await yields None: the stream has
\* ended (and stays ended); nothing is spawned.
AggNextNone ==
    /\ aggPc = "loop"
    /\ LoopRunning(iter)
    /\ streamOpen' = FALSE
    /\ iter' = iter + 1
    /\ UNCHANGED <<main, t1, response, env, ledger, table, rows, origin, attempted, aggPc, aggResult, delivered,
                   unsubscribed, runtime, tasks>>

\* unsubscriber().await, after the loop.
AggUnsubscribe ==
    /\ aggPc = "loop"
    /\ ~LoopRunning(iter)
    /\ unsubscribed' = unsubscribed + 1
    /\ aggPc' = "return"
    /\ UNCHANGED <<main, t1, response, env, ledger, table, rows, origin, attempted, aggResult, iter, delivered,
                   streamOpen, runtime, tasks>>

\* Ok(())
AggReturn ==
    /\ aggPc = "return"
    /\ Return("Ok")
    /\ UNCHANGED <<main, t1, response, env, ledger, table, rows, origin, attempted, iter, delivered, streamOpen,
                   unsubscribed, runtime, tasks>>

\* #[tokio::main] async fn run: when aggregate_data has returned, block_on
\* returns and the runtime is dropped.
RuntimeDrop ==
    /\ aggPc = "done"
    /\ runtime = "running"
    /\ runtime' = "dropped"
    /\ UNCHANGED <<main, t1, response, env, ledger, table, rows, origin, attempted, aggPc, aggResult, iter,
                   delivered, streamOpen, unsubscribed, tasks>>

(***************************************************************************)
(* Spec: the ingestion worker.                                             *)
(***************************************************************************)
Init ==
    /\ env \in BOOLEAN
    /\ ledger = MainLedger
    /\ table = FALSE
    /\ rows = <<>>
    /\ origin = <<>>
    /\ attempted = 0
    /\ aggPc = "start"
    /\ aggResult = "none"
    /\ iter = 0
    /\ delivered = 0
    /\ streamOpen = FALSE
    /\ unsubscribed = 0
    /\ runtime = "running"
    /\ tasks = <<>>
    /\ NotStarted

Next ==
    \/ AggNewDatabase
    \/ AggEnv
    \/ AggPubsub
    \/ AggSubscribe
    \/ AggNextSome
    \/ AggNextNone
    \/ AggUnsubscribe
    \/ AggReturn
    \/ RuntimeDrop
    \/ \E i \in DOMAIN tasks : TaskStart(i)
    \/ \E i \in DOMAIN tasks : TaskFetch(i)
    \/ \E i \in DOMAIN tasks : TaskHandleBlock(i)
    \/ \E i \in DOMAIN tasks : TaskTransaction(i)
    \/ \E i \in DOMAIN tasks : TaskCancel(i)

Spec == Init /\ [][Next]_vars

\* The main future is polled whenever it can proceed, and the stream either
\* yields a notification or ends.
FairSpec ==
    /\ Spec
    /\ WF_vars(AggNextSome \/ AggNextNone)
    /\ WF_vars(AggUnsubscribe)
    /\ WF_vars(AggReturn)

(***************************************************************************)
(* BlockSpec: one call of get_block, as src/src/tests.rs makes it, on a    *)
(* store whose table exists.  The block served for the slot ranges over    *)
(* the raw transactions the upstream encodings allow: a Binary transaction *)
(* exposes no signatures and no message, a transaction without metadata    *)
(* has no balances.                                                        *)
(***************************************************************************)
SignatureLists == {<<>>, <<"s1">>, <<"s1", "s2">>}

KeyLists ==
    {<<>>, <<"A">>, <<"A", "B">>, <<"A", "B", "C">>, <<"B", "A", "C">>,
     <<"bad", "B">>, <<"A", "bad">>}

\* Balances of account 0: small values, and the values around i64::MAX.
Balances == {0, 80, 100, IMax, IMax + 1, UMax}

PreBalances == {<<>>} \cup {<<b, 50, 10>> : b \in Balances}
PostBalances == {<<>>} \cup {<<b, 70, 10>> : b \in Balances}

NoMessage == "None"

JsonTransactions ==
    [encoding : {"Json"}, message : {"Raw", "Parsed"}, meta : {TRUE},
     signatures : SignatureLists, account_keys : KeyLists,
     pre_balances : PreBalances, post_balances : PostBalances]
    \cup
    [encoding : {"Json"}, message : {"Raw", "Parsed"}, meta : {FALSE},
     signatures : SignatureLists, account_keys : KeyLists,
     pre_balances : {<<>>}, post_balances : {<<>>}]

BinaryTransactions ==
    [encoding : {"Binary"}, message : {NoMessage}, meta : {TRUE},
     signatures : {<<>>}, account_keys : {<<>>},
     pre_balances : PreBalances, post_balances : PostBalances]
    \cup
    [encoding : {"Binary"}, message : {NoMessage}, meta : {FALSE},
     signatures : {<<>>}, account_keys : {<<>>},
     pre_balances : {<<>>}, post_balances : {<<>>}]

RawTransactions == JsonTransactions \cup BinaryTransactions

BlockTimes == {None, Some(RefTime), Some(0 - 1)}

\* Blocks in which a raw transaction stands alone, after a transfer, or before
\* one.
Blocks ==
    [block_time : BlockTimes,
     transactions : {<<>>} \cup {<<t>> : t \in RawTransactions}
                    \cup {<<TxAB, t>> : t \in RawTransactions}
                    \cup {<<t, TxBA>> : t \in RawTransactions}]

BlockInit ==
    /\ env \in BOOLEAN
    /\ ledger \in {[s \in {1} |-> b] : b \in Blocks}
    /\ table = TRUE
    /\ rows = <<>>
    /\ origin = <<>>
    /\ attempted = 0
    /\ aggPc = "idle"
    /\ aggResult = "none"
    /\ iter = 0
    /\ delivered = 0
    /\ streamOpen = FALSE
    /\ unsubscribed = 0
    /\ runtime = "running"
    /\ tasks = <<NewTask(1)>>
    /\ NotStarted

BlockNext ==
    \/ \E i \in DOMAIN tasks : TaskStart(i)
    \/ \E i \in DOMAIN tasks : TaskFetch(i)
    \/ \E i \in DOMAIN tasks : TaskHandleBlock(i)
    \/ \E i \in DOMAIN tasks : TaskTransaction(i)

BlockSpec == BlockInit /\ [][BlockNext]_vars

(***************************************************************************)
(* Properties of the ingestion worker (Spec, FairSpec).                    *)
(***************************************************************************)
TaskFailed(t) == t.pc = "done" /\ t.result # "Ok"

\* The subscription was established and the loop has taken all its iterations.
LoopEnded == aggPc \in {"loop", "return", "done"} /\ ~LoopRunning(iter)

AllTasksFinished == tasks # <<>> /\ \A i \in DOMAIN tasks : tasks[i].pc = "done"

\* C1, as claimed: once the subscription loop has ended, exactly
\* MAX_ITERATIONS per-slot tasks have been spawned.
C1_ExactlyKSpawned == LoopEnded => Len(tasks) = MAX_ITERATIONS

\* C1, amended: one per-slot task is spawned per notification the stream
\* yields, whatever the tasks' outcomes: when the loop has ended their number
\* is the number of notifications received, at most MAX_ITERATIONS, and exactly
\* MAX_ITERATIONS when the stream has not ended.
C1_OneTaskPerNotification ==
    /\ Len(tasks) = delivered
    /\ delivered <= iter
    /\ LoopEnded => /\ Len(tasks) <= MAX_ITERATIONS
                    /\ streamOpen => Len(tasks) = MAX_ITERATIONS

C1_Witness ==
    /\ LoopEnded
    /\ streamOpen
    /\ Len(tasks) = MAX_ITERATIONS
    /\ \E i \in DOMAIN tasks : tasks[i].result = "BlockFetchError"

\* A per-slot task has failed, or an insert has failed with a store error.
FailureOccurred ==
    \/ \E i \in DOMAIN tasks : TaskFailed(tasks[i])
    \/ Len(rows) < attempted

\* C2: once a per-slot task or one of its inserts has failed, aggregate_data
\* has still returned nothing but Ok, the loop is not left before its last
\* iteration, and every notification received has its own task.
C2_FailureContained ==
    FailureOccurred
        => /\ aggResult \in {"none", "Ok"}
           /\ aggPc \in {"loop", "return", "done"}
           /\ aggPc # "loop" => ~LoopRunning(iter)
           /\ Len(tasks) = delivered

C2_Witness ==
    /\ aggResult = "Ok"
    /\ Len(tasks) = MAX_ITERATIONS
    /\ TaskFailed(tasks[1])
    /\ \E i \in DOMAIN tasks : i > 1 /\ tasks[i].result = "Ok" /\ tasks[i].pc = "done"
    /\ attempted > Len(rows)

\* C3, as claimed: no spawned per-slot task is ever cancelled, also after
\* aggregate_data has returned and run has finished.
C3_NoTaskCancelled == \A i \in DOMAIN tasks : tasks[i].pc # "cancelled"

\* C4, as claimed: when two or more tasks have run to the end of their
\* blocks' transactions (none stopped by an AggregatorError), every Transfer
\* handed to Database::insert is a persisted row, and no task has crashed.
C4_NoLostWrite ==
    /\ Len(tasks) >= 2
    /\ \A i \in DOMAIN tasks :
          tasks[i].pc = "done" /\ tasks[i].result \in {"Ok", "Panic"}
    => /\ Len(rows) = attempted
       /\ \A i \in DOMAIN tasks : tasks[i].result # "Panic"

\* The loop takes MAX_ITERATIONS iterations and no more; unsubscriber() is
\* called at most once, only after the loop, and before Ok is returned.
LoopThenUnsubscribe ==
    /\ iter <= MAX_ITERATIONS
    /\ unsubscribed <= 1
    /\ unsubscribed = 1 => iter = MAX_ITERATIONS /\ aggPc \in {"return", "done"}
    /\ aggPc = "return" \/ aggResult = "Ok" => unsubscribed = 1
    /\ aggPc = "loop" => unsubscribed = 0

\* No step after unsubscriber() spawns a task.
NoSpawnAfterUnsubscribe == unsubscribed >= 1 => Len(tasks') = Len(tasks)

\* C10: the subscription loop stops after MAX_ITERATIONS iterations, the
\* stream is then unsubscribed exactly once (never before the loop has ended,
\* and no task is spawned after it), and once subscribed aggregate_data
\* eventually returns Ok, given that the stream keeps yielding or ends.
C10_SubscribedToTerminated ==
    /\ []LoopThenUnsubscribe
    /\ [][NoSpawnAfterUnsubscribe]_vars
    /\ (aggPc = "loop") ~> (aggResult = "Ok" /\ unsubscribed = 1)

C10_Witness ==
    /\ aggResult = "Ok"
    /\ unsubscribed = 1
    /\ iter = MAX_ITERATIONS
    /\ Len(tasks) = MAX_ITERATIONS

(***************************************************************************)
(* Properties of one per-slot task (BlockSpec).                            *)
(***************************************************************************)
\* The raw transaction a row came from.
TxOf(o) == BlockOf(tasks[o.task]).transactions[o.idx]

\* get_block got as far as calling handle_block.
HandledBlock(t) ==
    \/ t.pc = "txs"
    \/ /\ t.pc = "done"
       /\ t.result \notin {"DatabaseError", "EnvFetchError", "BlockFetchError"}

\* handle_block's loop has taken up transaction j of the task's block...
TookUp(t, j) == t.idx >= j /\ t.pc \in {"txs", "done"}

\* ...and went past it to the next one, or to the end of the block.
WentPast(t, j) == (t.pc = "txs" /\ t.idx > j) \/ (t.pc = "done" /\ t.idx > j)

\* The task ended at transaction j with an AggregatorError.
EndedInErrorAt(t, j) ==
    t.pc = "done" /\ t.idx = j /\ t.result = "TransactionParseError"

NoRowOf(i, j) == \A r \in DOMAIN origin : origin[r] # [task |-> i, idx |-> j]

\* C5: a task whose block has no block time never enters the transaction
\* loop, inserts no row, and handle_block returns TimeFetchError.
C5_MissingBlockTime ==
    \A i \in DOMAIN tasks :
        ~BlockOf(tasks[i]).block_time.some
            => /\ tasks[i].pc # "txs"
               /\ \A r \in DOMAIN origin : origin[r].task # i
               /\ tasks[i].pc = "done" /\ HandledBlock(tasks[i])
                      => tasks[i].result = "TimeFetchError"

C5_Witness ==
    \E i \in DOMAIN tasks :
        /\ ~BlockOf(tasks[i]).block_time.some
        /\ Len(BlockOf(tasks[i]).transactions) = 2
        /\ tasks[i].pc = "done"
        /\ tasks[i].result = "TimeFetchError"
        /\ rows = <<>>

\* A raw (Json, non-parsed, with metadata) transaction that breaks the
\* extractor's assumptions.
Malformed(t) ==
    /\ t.encoding = "Json" /\ t.message = "Raw" /\ t.meta
    /\ \/ Len(t.account_keys) < 2
       \/ t.signatures = <<>>
       \/ ~PubkeyFromStr(t.account_keys[1]).ok
       \/ ~PubkeyFromStr(t.account_keys[2]).ok

\* C6, as claimed: a task that takes up a malformed raw transaction ends
\* there with a typed error, and no row is inserted for that transaction.
C6_TypedFailure ==
    \A i \in DOMAIN tasks :
        \A j \in DOMAIN BlockOf(tasks[i]).transactions :
            Malformed(BlockOf(tasks[i]).transactions[j])
                => /\ NoRowOf(i, j)
                   /\ ~WentPast(tasks[i], j)
                   /\ tasks[i].pc = "done" /\ TookUp(tasks[i], j)
                          => EndedInErrorAt(tasks[i], j)

\* A transaction without metadata, or whose encoding exposes no raw message.
Unextractable(t) == ~t.meta \/ t.encoding # "Json" \/ t.message # "Raw"

\* C7, as claimed: a task that takes up an unextractable transaction ends
\* there with TransactionParseError, and no row is inserted for that
\* transaction.
C7_RejectsUnextractable ==
    \A i \in DOMAIN tasks :
        \A j \in DOMAIN BlockOf(tasks[i]).transactions :
            Unextractable(BlockOf(tasks[i]).transactions[j])
                => /\ NoRowOf(i, j)
                   /\ ~WentPast(tasks[i], j)
                   /\ tasks[i].pc = "done" /\ TookUp(tasks[i], j)
                          => EndedInErrorAt(tasks[i], j)

\* C8, as claimed: every persisted row holds account_keys[0], account_keys[1],
\* pre_balances[0] - post_balances[0], the formatted block time and the first
\* signature of the transaction it came from, and nothing else of it.
C8_TransferFields ==
    \A r \in DOMAIN rows :
        LET t == TxOf(origin[r])
            b == BlockOf(tasks[origin[r].task])
        IN  /\ Len(t.account_keys) >= 2
            /\ Len(t.signatures) >= 1
            /\ Len(t.pre_balances) >= 1
            /\ Len(t.post_balances) >= 1
            /\ rows[r] = [sender    |-> t.account_keys[1],
                          receiver  |-> t.account_keys[2],
                          amount    |-> t.pre_balances[1] - t.post_balances[1],
                          timestamp |-> get_timestamp(b.block_time.value),
                          signature |-> t.signatures[1]]

\* A raw transaction that meets the extractor's assumptions.
WellFormed(t) ==
    /\ t.encoding = "Json" /\ t.message = "Raw" /\ t.meta
    /\ ~Malformed(t)
    /\ Len(t.pre_balances) >= 1
    /\ Len(t.post_balances) >= 1

\* C9, as claimed: for every well-formed raw transaction the subtraction
\* neither overflows (no panic) nor wraps: the stored amount is
\* pre_balances[0] - post_balances[0].
C9_ExactAmount ==
    /\ \A r \in DOMAIN rows :
          WellFormed(TxOf(origin[r]))
              => rows[r].amount = TxOf(origin[r]).pre_balances[1]
                                  - TxOf(origin[r]).post_balances[1]
    /\ \A i \in DOMAIN tasks :
          /\ tasks[i].pc = "done"
          /\ tasks[i].idx >= 1
          /\ WellFormed(BlockOf(tasks[i]).transactions[tasks[i].idx])
          => tasks[i].result # "Panic"

(***************************************************************************)
(* TestEnvSpec: src/src/tests.rs test_env, which calls get_block(slot)     *)
(* directly and aggregate_data() on the same process environment and the   *)
(* same store.                                                             *)
(***************************************************************************)
TestEnvInit ==
    /\ env \in BOOLEAN
    /\ ledger = MainLedger
    /\ table = FALSE
    /\ rows = <<>>
    /\ origin = <<>>
    /\ attempted = 0
    /\ aggPc = "start"
    /\ aggResult = "none"
    /\ iter = 0
    /\ delivered = 0
    /\ streamOpen = FALSE
    /\ unsubscribed = 0
    /\ runtime = "running"
    /\ \E slot \in Slots : tasks = <<NewTask(slot)>>
    /\ NotStarted

\* get_block as a whole, and aggregate_data up to its subscription loop.
TestEnvNext ==
    \/ \E i \in DOMAIN tasks : TaskStart(i)
    \/ \E i \in DOMAIN tasks : TaskFetch(i)
    \/ \E i \in DOMAIN tasks : TaskHandleBlock(i)
    \/ \E i \in DOMAIN tasks : TaskTransaction(i)
    \/ AggNewDatabase
    \/ AggEnv
    \/ AggPubsub
    \/ AggSubscribe

TestEnvSpec == TestEnvInit /\ [][TestEnvNext]_vars

\* No subscription has been opened, no block request has been sent and no
\* row has been inserted.
NothingStarted ==
    /\ aggPc \in {"start", "env", "done"}
    /\ ~streamOpen
    /\ \A i \in DOMAIN tasks : tasks[i].pc \in {"queued", "done", "cancelled"}
    /\ attempted = 0
    /\ rows = <<>>

\* C11, as claimed: with the endpoint configuration missing, get_block and
\* aggregate_data both return EnvFetchError, and nothing has been started.
C11_EnvFetchErrorOnly ==
    ~env => /\ NothingStarted
            /\ \A i \in DOMAIN tasks :
                  tasks[i].pc = "done" => tasks[i].result = "EnvFetchError"
            /\ aggPc = "done" => aggResult = "EnvFetchError"

\* C11, amended: with the endpoint configuration missing, no subscription is
\* opened, no block request is sent and no row is inserted; get_block returns
\* EnvFetchError, or DatabaseError when its connection to the store fails
\* first; aggregate_data returns EnvFetchError once Database::new has created
\* the table, and panics when Database::new fails.
C11_EnvCheckedAfterStore ==
    ~env => /\ NothingStarted
            /\ \A i \in DOMAIN tasks :
                  tasks[i].pc = "done"
                      => tasks[i].result \in {"EnvFetchError", "DatabaseError"}
            /\ aggPc = "done"
                  => aggResult = (IF table THEN "EnvFetchError" ELSE "Panic")

C11_Witness ==
    /\ ~env
    /\ tasks[1].pc = "done" /\ tasks[1].result = "EnvFetchError"
    /\ aggPc = "done" /\ aggResult = "EnvFetchError"
    /\ NothingStarted

(***************************************************************************)
(* The query service (restful_api.rs 44-164, database.rs 100-139).  The    *)
(* SQL text is modelled by the sequence of lexemes SQLite reads in it; a   *)
(* parameter value is [text, lexemes]: the string, and the lexemes it      *)
(* spells once pasted into the statement.                                  *)
(***************************************************************************)
Text(text, lexemes) == [text |-> text, lexemes |-> lexemes]
Word(w) == Text(w, <<w>>)

Quote == "\""

\* if !flag { " WHERE" } else { " AND" }
Connective(flag) == IF flag THEN <<"AND">> ELSE <<"WHERE">>

sender_query(flag, query, sender) ==
    query \o Connective(flag) \o <<"sender", "=", Quote>> \o sender.lexemes \o <<Quote>>

receiver_query(flag, query, receiver) ==
    query \o Connective(flag) \o <<"receiver", "=", Quote>> \o receiver.lexemes
          \o <<Quote>>

signature_query(flag, query, signature) ==
    query \o Connective(flag) \o <<"signature", "=", Quote>> \o signature.lexemes
          \o <<Quote>>

start_date_query(flag, query, start_date) ==
    query \o Connective(flag) \o <<"timestamp", ">=">> \o start_date.lexemes

end_date_query(flag, query, end_date) ==
    query \o Connective(flag) \o <<"timestamp", "<=">> \o end_date.lexemes

\* The statement that the handler `transactions` builds for the parameters
\* `info`.
TransactionsQuery(info) ==
    LET q0 == <<"SELECT", "*", "FROM", "transactions">>
        q1 == IF info.start_date.some
              THEN start_date_query(FALSE, q0, info.start_date.value) ELSE q0
        f1 == info.start_date.some
        q2 == IF info.end_date.some
              THEN end_date_query(f1, q1, info.end_date.value) ELSE q1
        f2 == f1 \/ info.end_date.some
        q3 == IF info.signature.some
              THEN signature_query(f2, q2, info.signature.value) ELSE q2
        f3 == f2 \/ info.signature.some
        q4 == IF info.sender.some
              THEN sender_query(f3, q3, info.sender.value) ELSE q3
        f4 == f3 \/ info.sender.some
    IN  IF info.receiver.some
        THEN receiver_query(f4, q4, info.receiver.value) ELSE q4

(***************************************************************************)
(* What SQLite makes of such a statement.  Tokens: a double-quoted run of  *)
(* lexemes is one token; in a build with SQLITE_DQS=0 it is an identifier, *)
(* otherwise an identifier when it names a column and a string literal     *)
(* when it does not.  The grammar covered is                               *)
(*   SELECT * FROM transactions [WHERE cond {(AND | OR) cond}]             *)
(* with cond: operand (= | >= | <=) operand; arithmetic is not covered     *)
(* (the lexeme "2024-07-28" stands for the expression 2024 - 07 - 28).     *)
(***************************************************************************)
Columns == {"sender", "receiver", "amount", "timestamp", "signature"}
Comparisons == {"=", ">=", "<="}
Keywords == {"SELECT", "FROM", "WHERE", "AND", "OR", "*"} \cup Comparisons

BadToken == [k |-> "bad", t |-> ""]

RECURSIVE JoinText(_)
JoinText(ls) ==
    IF ls = <<>> THEN ""
    ELSE IF Len(ls) = 1 THEN ls[1]
    ELSE ls[1] \o " " \o JoinText(Tail(ls))

\* The position of the first Quote of q at or after i, 0 when there is none.
RECURSIVE NextQuote(_, _)
NextQuote(q, i) ==
    IF i > Len(q) THEN 0 ELSE IF q[i] = Quote THEN i ELSE NextQuote(q, i + 1)

RECURSIVE Tokens(_)
Tokens(q) ==
    IF q = <<>> THEN <<>>
    ELSE IF Head(q) = Quote
    THEN LET close == NextQuote(q, 2)
         IN  IF close = 0 THEN <<BadToken>>
             ELSE <<[k |-> "quoted", t |-> JoinText(SubSeq(q, 2, close - 1))]>>
                  \o Tokens(SubSeq(q, close + 1, Len(q)))
    ELSE <<[k |-> "bare", t |-> Head(q)]>> \o Tokens(Tail(q))

IsOperand(tok) == tok.k = "quoted" \/ (tok.k = "bare" /\ tok.t \notin Keywords)

\* The tokens after "WHERE" form cond {(AND | OR) cond}.
ConditionSyntax(r) ==
    /\ Len(r) % 4 = 3
    /\ \A p \in DOMAIN r :
          IF p % 4 = 2 THEN r[p].k = "bare" /\ r[p].t \in Comparisons
          ELSE IF p % 4 = 0 THEN r[p].k = "bare" /\ r[p].t \in {"AND", "OR"}
          ELSE IsOperand(r[p])

\* The tokens of the WHERE clause of the statement ts.
Conditions(ts) == SubSeq(ts, 6, Len(ts))

SyntaxError(ts) ==
    \/ \E p \in DOMAIN ts : ts[p] = BadToken
    \/ Len(ts) = 5
    \/ Len(ts) > 5 /\ (ts[5] # [k |-> "bare", t |-> "WHERE"]
                       \/ ~ConditionSyntax(Conditions(ts)))

\* "no such column"
NameError(tok, dqs) == tok.t \notin Columns /\ (tok.k = "bare" \/ ~dqs)

\* Connection::prepare(query) returns Err.
PrepareFails(query, dqs) ==
    LET ts == Tokens(query)
    IN  \/ SyntaxError(ts)
        \/ \E p \in DOMAIN Conditions(ts) :
              IsOperand(Conditions(ts)[p]) /\ NameError(Conditions(ts)[p], dqs)

\* The value of an operand in a row: a column's value, or a string literal.
Operand(tok, row) ==
    IF tok.t \in Columns
    THEN IF tok.t = "amount" THEN [k |-> "integer", v |-> row.amount]
         ELSE [k |-> "text", v |-> row[tok.t]]
    ELSE [k |-> "text", v |-> tok.t]

\* Only equality is evaluated: no statement built from Requests gets past
\* prepare with an ordered comparison in it.
Holds(a, op, b) == CASE op = "=" -> a.k = b.k /\ a.v = b.v

RECURSIVE AndRun(_, _, _)
AndRun(r, p, row) ==
    /\ Holds(Operand(r[p], row), r[p + 1].t, Operand(r[p + 2], row))
    /\ IF p + 3 <= Len(r) /\ r[p + 3].t = "AND" THEN AndRun(r, p + 4, row) ELSE TRUE

\* The first condition after the next OR, 0 when there is none.
RECURSIVE NextOr(_, _)
NextOr(r, p) ==
    IF p + 3 > Len(r) THEN 0
    ELSE IF r[p + 3].t = "OR" THEN p + 4 ELSE NextOr(r, p + 4)

RECURSIVE EvalOr(_, _, _)
EvalOr(r, p, row) ==
    \/ AndRun(r, p, row)
    \/ NextOr(r, p) # 0 /\ EvalOr(r, NextOr(r, p), row)

Selected(query, row) ==
    LET ts == Tokens(query)
    IN  Len(ts) = 4 \/ EvalOr(Conditions(ts), 1, row)

\* One element of Database::query's Vec<String>.
RowText(row) ==
    "{" \o "sender:" \o row.sender \o ", " \o "receiver:" \o row.receiver \o ", "
        \o "amount:" \o ToString(row.amount) \o ", " \o "timestamp:" \o row.timestamp
        \o ", " \o "signature:" \o row.signature \o ", " \o "}"

RECURSIVE QueryRows(_, _)
QueryRows(query, rs) ==
    IF rs = <<>> THEN <<>>
    ELSE IF Selected(query, Head(rs))
         THEN <<RowText(Head(rs))>> \o QueryRows(query, Tail(rs))
         ELSE QueryRows(query, Tail(rs))

\* GET /transactions: Database::new_connection().unwrap(), the statement, then
\* Database::query, whose prepare(query).unwrap() panics on a statement that
\* SQLite rejects or when the table does not exist.
WebTransactions(info) ==
    /\ t1.pc = "serving"
    /\ \E connected \in BOOLEAN, dqs \in BOOLEAN :
          LET query == TransactionsQuery(info)
          IN  response' =
                 IF ~connected \/ ~table \/ PrepareFails(query, dqs)
                 THEN [request |-> info, status |-> "Panic", body |-> <<>>]
                 ELSE [request |-> info, status |-> "Ok",
                       body |-> QueryRows(query, rows)]
    /\ UNCHANGED <<main, t1, env, ledger, table, rows, origin, attempted, aggPc,
                   aggResult, iter, delivered, streamOpen, unsubscribed, runtime, tasks>>

(***************************************************************************)
(* MainSpec: the whole process.  main spawns t1 (web_server) and t2 (run)  *)
(* and joins t1, then t2 (main.rs 20-29).                                  *)
(***************************************************************************)
\* HttpServer::new(..).bind(("127.0.0.1", 8080))?: the bind error is returned.
WebBind ==
    /\ t1.pc = "starting"
    /\ \E bound \in BOOLEAN :
          t1' = IF bound THEN [t1 EXCEPT !.pc = "serving"]
                ELSE [pc |-> "done", result |-> "Err"]
    /\ UNCHANGED <<main, response, env, ledger, table, rows, origin, attempted, aggPc,
                   aggResult, iter, delivered, streamOpen, unsubscribed, runtime, tasks>>

\* .run().await returns: Ok after a shutdown signal, Err on an I/O error.
\* Without either the server keeps serving.
WebStop ==
    /\ t1.pc = "serving"
    /\ \E result \in {"Ok", "Err"} : t1' = [pc |-> "done", result |-> result]
    /\ UNCHANGED <<main, response, env, ledger, table, rows, origin, attempted, aggPc,
                   aggResult, iter, delivered, streamOpen, unsubscribed, runtime, tasks>>

\* The thread t2 has finished: run() has returned or unwound.
T2Finished == aggPc = "done" /\ runtime = "dropped"

\* t1.join().unwrap().is_err()
MainJoinT1 ==
    /\ main.pc = "join_t1"
    /\ t1.pc = "done"
    /\ main' = IF t1.result = "Err" THEN [pc |-> "done", result |-> "WebServerError"]
               ELSE [main EXCEPT !.pc = "join_t2"]
    /\ UNCHANGED <<t1, response, env, ledger, table, rows, origin, attempted, aggPc,
                   aggResult, iter, delivered, streamOpen, unsubscribed, runtime, tasks>>

\* let Err(_err) = t2.join().unwrap(): join is Err when t2 panicked, and the
\* unwrap then panics in main.
MainJoinT2 ==
    /\ main.pc = "join_t2"
    /\ T2Finished
    /\ main' = [pc |-> "done",
                result |-> IF aggResult = "Panic" THEN "Panic"
                           ELSE IF aggResult = "Ok" THEN "Ok"
                           ELSE "AggregatorError"]
    /\ UNCHANGED <<t1, response, env, ledger, table, rows, origin, attempted, aggPc,
                   aggResult, iter, delivered, streamOpen, unsubscribed, runtime, tasks>>

MainInit ==
    /\ env \in BOOLEAN
    /\ ledger = MainLedger
    /\ table = FALSE
    /\ rows = <<>>
    /\ origin = <<>>
    /\ attempted = 0
    /\ aggPc = "start"
    /\ aggResult = "none"
    /\ iter = 0
    /\ delivered = 0
    /\ streamOpen = FALSE
    /\ unsubscribed = 0
    /\ runtime = "running"
    /\ tasks = <<>>
    /\ main = Thread("join_t1")
    /\ t1 = Thread("starting")
    /\ response = NoResponse

MainNext ==
    \/ AggNewDatabase
    \/ AggEnv
    \/ AggPubsub
    \/ AggSubscribe
    \/ AggNextSome
    \/ AggNextNone
    \/ AggUnsubscribe
    \/ AggReturn
    \/ RuntimeDrop
    \/ \E i \in DOMAIN tasks : TaskStart(i)
    \/ \E i \in DOMAIN tasks : TaskFetch(i)
    \/ \E i \in DOMAIN tasks : TaskHandleBlock(i)
    \/ \E i \in DOMAIN tasks : TaskTransaction(i)
    \/ \E i \in DOMAIN tasks : TaskCancel(i)
    \/ WebBind
    \/ WebStop
    \/ WebTransactions(NoRequest)
    \/ MainJoinT1
    \/ MainJoinT2

MainSpec == MainInit /\ [][MainNext]_vars

\* Every thread that can take a step is scheduled, the runtime polls the
\* main future, and the stream yields or ends.  Nothing makes a serving web
\* server stop.
MainFairSpec ==
    /\ MainSpec
    /\ WF_vars(AggNewDatabase)
    /\ WF_vars(AggEnv)
    /\ WF_vars(AggPubsub)
    /\ WF_vars(AggSubscribe)
    /\ WF_vars(AggNextSome \/ AggNextNone)
    /\ WF_vars(AggUnsubscribe)
    /\ WF_vars(AggReturn)
    /\ WF_vars(RuntimeDrop)
    /\ WF_vars(WebBind)
    /\ WF_vars(MainJoinT1)
    /\ WF_vars(MainJoinT2)

\* A worker has terminated with an error.
WebServerFailed == t1.pc = "done" /\ t1.result = "Err"
IngestionFailed == T2Finished /\ aggResult # "Ok"

\* main has returned a RuntimeError.
MainReportedFailure ==
    main.pc = "done" /\ main.result \in {"WebServerError", "AggregatorError"}

\* No step starts a worker that has terminated again.
NoRestart ==
    /\ t1.pc = "done" => t1' = t1
    /\ aggPc = "done" => aggPc' = "done" /\ aggResult' = aggResult

\* C12, as claimed: whenever the query service or the ingestion worker
\* terminates with an error, main eventually returns a RuntimeError, whatever
\* the other worker does; and no worker is ever restarted.
C12_FailureReported ==
    /\ WebServerFailed ~> MainReportedFailure
    /\ IngestionFailed ~> MainReportedFailure
    /\ [][NoRestart]_vars

(***************************************************************************)
(* QuerySpec: GET /transactions on a store that ingestion has filled.      *)
(***************************************************************************)
\* Most rows in the store.
MaxStored == 2

\* The rows that ingestion persists for the transfers TxAB and TxBA.
StoredRows ==
    {RowOf(o.tx) :
        o \in {x \in UNION {handle_transaction(
                               [NewTransaction EXCEPT
                                   !.timestamp = get_timestamp(RefTime)], t) :
                            t \in {TxAB, TxBA}} : x.tag = "Ok"}}

Stores == UNION {[1..n -> StoredRows] : n \in 0..MaxStored}

\* Parameter values: account keys, a signature, a column's name, a value
\* with double quotes in it, and a block time as the store formats it.
QuotedOr == Text("A\" OR \"A\"=\"A", <<"A", Quote, "OR", Quote, "A", Quote, "=", Quote, "A">>)
DateTime == Text(get_timestamp(RefTime), <<"2024-07-28", "21:11:50">>)

Requests ==
    [start_date : {None, Some(DateTime)},
     end_date   : {None, Some(DateTime)},
     signature  : {None, Some(Word("s1"))},
     sender     : {None, Some(Word("A")), Some(Word("B")), Some(Word("sender")),
                   Some(QuotedOr)},
     receiver   : {None, Some(Word("B")), Some(Word("receiver"))}]

QueryInit ==
    /\ env \in BOOLEAN
    /\ ledger = MainLedger
    /\ table = TRUE
    /\ rows \in Stores
    /\ origin = <<>>
    /\ attempted = 0
    /\ aggPc = "idle"
    /\ aggResult = "none"
    /\ iter = 0
    /\ delivered = 0
    /\ streamOpen = FALSE
    /\ unsubscribed = 0
    /\ runtime = "running"
    /\ tasks = <<>>
    /\ main = Thread("join_t1")
    /\ t1 = Thread("serving")
    /\ response = NoResponse

QueryNext == \E info \in Requests : WebTransactions(info)

QuerySpec == QueryInit /\ [][QueryNext]_vars

\* The row passes every equality filter of the request.
Matches(row, info) ==
    /\ info.sender.some => row.sender = info.sender.value.text
    /\ info.receiver.some => row.receiver = info.receiver.value.text
    /\ info.signature.some => row.signature = info.signature.value.text

RECURSIVE MatchingRows(_, _)
MatchingRows(rs, info) ==
    IF rs = <<>> THEN <<>>
    ELSE IF Matches(Head(rs), info)
         THEN <<RowText(Head(rs))>> \o MatchingRows(Tail(rs), info)
         ELSE MatchingRows(Tail(rs), info)

\* The filters the request gives.
Given(info) ==
    {f \in {"start_date", "end_date", "signature", "sender", "receiver"} : info[f].some}

\* C13, as claimed: an answered request with only sender=X returns exactly
\* the stored rows whose sender equals X, one with no filter returns all
\* stored rows, and one with several of sender, receiver and signature returns
\* the rows that pass all of them.
C13_ExactFilter ==
    /\ response.status = "Ok"
    /\ \/ Given(response.request) = {"sender"}
       \/ Given(response.request) = {}
       \/ /\ Cardinality(Given(response.request)) >= 2
          /\ Given(response.request) \subseteq {"signature", "sender", "receiver"}
    => response.body = MatchingRows(rows, response.request)

(***************************************************************************)
(* TimestampSpec: get_block on blocks of one transfer whose block times    *)
(* range over instants from 1970 to 2038.                                  *)
(***************************************************************************)
\* Number of sampled instants besides the chosen ones.
TimeSamples == 40

\* The epoch, the last second of its first day, the reference instant of
\* src/src/tests.rs, the turns of February in 2000, 2023 and 2024, a turn of
\* the year, and instants spread over the range.
Timestamps ==
    {0, 59, 86399, 86400, RefTime, 951782399, 951782400, 951868800, 1677628799,
     1677628800, 1709164799, 1709164800, 1709251200, 1735689599, 1735689600}
    \cup {k * 49999999 : k \in 1..TimeSamples}

TimestampInit ==
    /\ env = TRUE
    /\ ledger \in {[s \in {1} |-> [block_time |-> Some(t), transactions |-> <<TxAB>>]] :
                     t \in Timestamps}
    /\ table = TRUE
    /\ rows = <<>>
    /\ origin = <<>>
    /\ attempted = 0
    /\ aggPc = "idle"
    /\ aggResult = "none"
    /\ iter = 0
    /\ delivered = 0
    /\ streamOpen = FALSE
    /\ unsubscribed = 0
    /\ runtime = "running"
    /\ tasks = <<NewTask(1)>>
    /\ NotStarted

TimestampSpec == TimestampInit /\ [][BlockNext]_vars

\* The UTC calendar, by counting: years from 1970, then months.
IsLeapYear(y) == (y % 4 = 0 /\ y % 100 # 0) \/ y % 400 = 0

DaysInYear(y) == IF IsLeapYear(y) THEN 366 ELSE 365

DaysInMonth(y, m) ==
    IF m = 2 THEN (IF IsLeapYear(y) THEN 29 ELSE 28)
    ELSE IF m \in {4, 6, 9, 11} THEN 30 ELSE 31

RECURSIVE YearOfDay(_, _)
YearOfDay(days, y) ==
    IF days < DaysInYear(y) THEN [year |-> y, day |-> days]
    ELSE YearOfDay(days - DaysInYear(y), y + 1)

RECURSIVE MonthOfDay(_, _, _)
MonthOfDay(days, y, m) ==
    IF days < DaysInMonth(y, m) THEN [month |-> m, day |-> days + 1]
    ELSE MonthOfDay(days - DaysInMonth(y, m), y, m + 1)

TwoDigits(n) == Digit[(n \div 10) + 1] \o Digit[(n % 10) + 1]

\* 'YYYY-MM-DD HH:MM:SS' of the instant t seconds after 1970-01-01 00:00:00 UTC.
UtcText(t) ==
    LET yd == YearOfDay(t \div 86400, 1970)
        md == MonthOfDay(yd.day, yd.year, 1)
        s  == t % 86400
    IN  TwoDigits(yd.year \div 100) \o TwoDigits(yd.year % 100) \o "-"
        \o TwoDigits(md.month) \o "-" \o TwoDigits(md.day) \o " "
        \o TwoDigits(s \div 3600) \o ":" \o TwoDigits((s \div 60) % 60) \o ":"
        \o TwoDigits(s % 60)

\* C14: the timestamp of every persisted row is the UTC date and time of its
\* block's time, 'YYYY-MM-DD HH:MM:SS' to the second, whatever the process
\* environment; for the block time 1722201110 it is "2024-07-28 21:11:50".
C14_UtcTimestamp ==
    \A r \in DOMAIN rows :
        LET t == BlockOf(tasks[origin[r].task]).block_time.value
        IN  /\ rows[r].timestamp = UtcText(t)
            /\ t = RefTime => rows[r].timestamp = "2024-07-28 21:11:50"

C14_Witness ==
    /\ rows # <<>>
    /\ BlockOf(tasks[1]).block_time.value = RefTime
    /\ rows[1].timestamp = "2024-07-28 21:11:50"
    /\ get_timestamp(1709164800) = "2024-02-29 00:00:00"

(***************************************************************************)
(* Properties of the transaction loop of a per-slot task (Spec).           *)
(***************************************************************************)
\* Transaction j of the task's block carries no metadata: the case in which
\* extraction yields an error.
ExtractionFails(t, j) == ~ledger[t.slot].transactions[j].meta

\* The store only grows: every step keeps the rows there are, in their order.
RowsKept ==
    /\ Len(rows') >= Len(rows)
    /\ SubSeq(rows', 1, Len(rows)) = rows
    /\ SubSeq(origin', 1, Len(origin)) = origin

\* A step changes at most one task, and none that has ended.
OtherTasksUntouched ==
    /\ \A i, k \in DOMAIN tasks : i # k /\ tasks'[i] # tasks[i] => tasks'[k] = tasks[k]
    /\ \A i \in DOMAIN tasks : tasks[i].pc = "done" => tasks'[i] = tasks[i]

InsertFailed(i, j) == WentPast(tasks[i], j) /\ NoRowOf(i, j)

\* C16, as claimed: once the insert of transaction j has failed in a task, no
\* later transaction of that task's block is inserted.
C16_AbortAtStoreError ==
    \A i \in DOMAIN tasks :
        \A j \in DOMAIN BlockOf(tasks[i]).transactions :
            InsertFailed(i, j)
                => \A k \in DOMAIN BlockOf(tasks[i]).transactions :
                      k > j => NoRowOf(i, k)

\* Rows of one task are in the store in the order of their transactions.
InBlockOrder ==
    \A r, q \in DOMAIN origin :
        r < q /\ origin[r].task = origin[q].task => origin[r].idx < origin[q].idx

\* A task's loop moves from a transaction to the next one only, and a row
\* that a step inserts is the row of the transaction its task is at: it is
\* extracted and handed to the store in that step, after all earlier ones.
OneTransactionAtATime ==
    /\ \A i \in DOMAIN tasks : tasks'[i].idx \in {tasks[i].idx, tasks[i].idx + 1}
    /\ Len(origin') > Len(origin)
          => /\ Len(origin') = Len(origin) + 1
             /\ LET o == origin'[Len(origin')]
                IN  /\ tasks[o.task].pc = "txs"
                    /\ o.idx = tasks[o.task].idx

\* C17: within one task the rows of transactions i < j are inserted in that
\* order, and transaction j is extracted only after transaction i has been
\* handed to the store.
C17_BlockOrder ==
    /\ []InBlockOrder
    /\ [][OneTransactionAtATime]_vars
    /\ [](\A r \in DOMAIN origin :
             origin[r].idx <= tasks[origin[r].task].idx
             /\ (tasks[origin[r].task].pc = "txs"
                    => origin[r].idx < tasks[origin[r].task].idx))

C17_Witness ==
    \E r, q \in DOMAIN origin :
        /\ r + 1 < q
        /\ origin[r] = [task |-> 1, idx |-> 1]
        /\ origin[q] = [task |-> 1, idx |-> 2]
        /\ origin[r + 1].task = 2

\* C18: while the loop runs and the stream is open, the next notification
\* is taken and its task spawned whatever the tasks spawned before are doing:
\* the loop waits for none of them.  (That rows of a slot delivered later do
\* get into the store before and between rows of an earlier one is the state
\* C18_Witness.)
C18_LoopNeverWaits ==
    aggPc = "loop" /\ LoopRunning(iter) /\ streamOpen => ENABLED AggNextSome

C18_Witness ==
    /\ Len(tasks) = 2
    /\ tasks[1].slot # tasks[2].slot
    /\ Len(origin) >= 3
    /\ origin[1].task = 2
    /\ origin[2].task = 1
    /\ origin[3].task = 2

\* The store holds a row of transaction j of task i.
HasRowOf(i, j) == \E r \in DOMAIN origin : origin[r] = [task |-> i, idx |-> j]

\* C19, as claimed: when two tasks have been spawned for the same slot and
\* both have fetched and processed its block to the end, the store holds two
\* rows for every transaction of that block, one of each task.
C19_EveryTransferTwice ==
    \A i, k \in DOMAIN tasks :
        /\ i < k
        /\ tasks[i].slot = tasks[k].slot
        /\ tasks[i].pc = "done" /\ tasks[i].result = "Ok"
        /\ tasks[k].pc = "done" /\ tasks[k].result = "Ok"
        => \A j \in DOMAIN BlockOf(tasks[i]).transactions :
              HasRowOf(i, j) /\ HasRowOf(k, j)

\* C20: a task sends at most one GetBlock request, and none before it has
\* read the environment; a task whose request failed has sent exactly that
\* one, has ended with BlockFetchError in the step in which it failed, never
\* entered handle_block and has no row in the store.
C20_SingleRequest ==
    /\ [](\A i \in DOMAIN tasks :
             /\ tasks[i].requests <= 1
             /\ tasks[i].pc \in {"queued", "fetch", "cancelled"} => tasks[i].requests = 0
             /\ tasks[i].pc \in {"block", "txs"} => tasks[i].requests = 1
             /\ tasks[i].result = "BlockFetchError"
                   => /\ tasks[i].pc = "done"
                      /\ tasks[i].requests = 1
                      /\ tasks[i].idx = 0
                      /\ \A r \in DOMAIN origin : origin[r].task # i)
    /\ [][\A i \in DOMAIN tasks :
             tasks'[i].requests > tasks[i].requests
                 => /\ tasks[i].pc = "fetch"
                    /\ tasks'[i].pc = "block" \/ tasks'[i].result = "BlockFetchError"]_vars

C20_Witness ==
    /\ Len(tasks) = 2
    /\ tasks[1].slot = tasks[2].slot
    /\ tasks[1].pc = "done" /\ tasks[1].result = "BlockFetchError"
    /\ tasks[1].requests = 1
    /\ tasks[2].pc = "done" /\ tasks[2].result = "Ok"
    /\ rows # <<>>

(***************************************************************************)
(* Properties of the whole process (MainSpec).                             *)
(***************************************************************************)
\* A step in which a task calls Database::insert finds the table created.
InsertAfterCreate == attempted' > attempted => table

\* A step in which the query service answers a request finds the table
\* created.
QueryAfterCreate == response' # response => table

\* C21, as claimed: in every interleaving of main's two threads, the table
\* has been created by Database::new before any insert of a per-slot task
\* and before any query of the query service.
C21_TableBeforeUse == [][InsertAfterCreate /\ QueryAfterCreate]_vars

====
